---- MODULE Spec2Model ----
(***************************************************************************)
(* Model of buildbot's worker_transition module: the "slave" -> "worker"   *)
(* API renaming layer.  Names are sequences of one-character strings so    *)
(* that str.lower(), the `in` substring test and str.replace() are        *)
(* computed character by character, as Python computes them.               *)
(***************************************************************************)
EXTENDS Naturals, Sequences, FiniteSets

VARIABLES
    nmNew, nmCompat, nmOrder, nmResult,    \* one call of _compat_name
    attrs, hasMapping, mapping, last,      \* one WorkerAPICompatMixin instance
    legacyClasses, lastNew,                \* classes made by deprecated_worker_class
    scope, scopeId, deprecatedAttributes,  \* one namespace of aliases
    lastUse,
    warnMethod, sinkLog                    \* Twisted's warning method

nameVars == <<nmNew, nmCompat, nmOrder, nmResult>>
mixinVars == <<attrs, hasMapping, mapping, last>>
classVars == <<legacyClasses, lastNew>>
scopeVars == <<scope, scopeId, deprecatedAttributes, lastUse>>
sinkVars == <<warnMethod, sinkLog>>

vars == <<nameVars, mixinVars, classVars, scopeVars, sinkVars>>

----------------------------------------------------------------------------
(* Character strings *)

worker == <<"w", "o", "r", "k", "e", "r">>
Worker == <<"W", "o", "r", "k", "e", "r">>
WORKER == <<"W", "O", "R", "K", "E", "R">>
slave == <<"s", "l", "a", "v", "e">>
Slave == <<"S", "l", "a", "v", "e">>
Some == <<"S", "o", "m", "e">>

\* The value None of an optional argument: no name is made of it.
None == <<"None">>

\* str.lower() on one character.
LowerChar(c) ==
    CASE c = "A" -> "a" [] c = "B" -> "b" [] c = "C" -> "c" [] c = "D" -> "d"
    [] c = "E" -> "e" [] c = "F" -> "f" [] c = "G" -> "g" [] c = "H" -> "h"
    [] c = "I" -> "i" [] c = "J" -> "j" [] c = "K" -> "k" [] c = "L" -> "l"
    [] c = "M" -> "m" [] c = "N" -> "n" [] c = "O" -> "o" [] c = "P" -> "p"
    [] c = "Q" -> "q" [] c = "R" -> "r" [] c = "S" -> "s" [] c = "T" -> "t"
    [] c = "U" -> "u" [] c = "V" -> "v" [] c = "W" -> "w" [] c = "X" -> "x"
    [] c = "Y" -> "y" [] c = "Z" -> "z"
    [] OTHER -> c

\* s.lower()
Lower(s) == [i \in 1..Len(s) |-> LowerChar(s[i])]

\* t in s, for strings: t occurs in s as a contiguous substring.
Contains(s, t) ==
    \E i \in 0..Len(s) :
        /\ i + Len(t) <= Len(s)
        /\ SubSeq(s, i + 1, i + Len(t)) = t

\* s.replace(old, new): every non-overlapping occurrence of old, scanning
\* from the left, is replaced by new (old is not empty).
RECURSIVE Replace(_, _, _)
Replace(s, old, new) ==
    IF Len(s) < Len(old) THEN s
    ELSE IF SubSeq(s, 1, Len(old)) = old
         THEN new \o Replace(SubSeq(s, Len(old) + 1, Len(s)), old, new)
         ELSE <<s[1]>> \o Replace(Tail(s), old, new)

----------------------------------------------------------------------------
(* _compat_name *)

\* What a call gives: a returned value, or the exception it raised.
Returned(v) == [err |-> "", value |-> v]
Raised(e) == [err |-> e, value |-> <<>>]
NotCalled == [err |-> "NotCalled", value |-> <<>>]

\* The empty dictionary, and d[k] = v.
EmptyDict == [k \in {} |-> 0]
DictSet(d, k, v) == [n \in DOMAIN d \cup {k} |-> IF n = k THEN v ELSE d[n]]

\* The dictionary of replacements, as the sequence of its items.
compat_replacements_only_lowercase == << <<worker, slave>> >>
compat_replacements == << <<worker, slave>>, <<Worker, Slave>> >>

\* The orders in which iteritems() may yield the items of the dictionary.
Orders ==
    {o \in [1..Len(compat_replacements) -> 1..Len(compat_replacements)] :
        \A i, j \in DOMAIN o : o[i] = o[j] => i = j}

\* The for loop over compat_replacements.iteritems(), in the order given.
RECURSIVE ReplaceAll(_, _, _)
ReplaceAll(s, order, k) ==
    IF k > Len(order) THEN s
    ELSE ReplaceAll(Replace(s, compat_replacements[order[k]][1],
                               compat_replacements[order[k]][2]),
                    order, k + 1)

\* The branch taken when compat_name is given.
compat_name_given(new_name, compat_name) ==
    IF ~Contains(Lower(compat_name), slave) THEN Raised("AssertionError")
    ELSE IF ~Contains(Lower(new_name), worker) THEN Raised("AssertionError")
    ELSE Returned(compat_name)

\* The branch taken when compat_name is None.
compat_name_derived(new_name, order) ==
    LET replaced == ReplaceAll(new_name, order, 1)
    IN  IF Contains(Lower(new_name), slave) THEN Raised("AssertionError")
        ELSE IF ~Contains(Lower(new_name), worker) THEN Raised("AssertionError")
        ELSE IF replaced = new_name THEN Raised("AssertionError")
        ELSE IF ~Contains(Lower(replaced), slave) THEN Raised("AssertionError")
        ELSE IF Contains(Lower(replaced), worker) THEN Raised("AssertionError")
        ELSE Returned(replaced)

_compat_name(new_name, compat_name, order) ==
    IF compat_name # None
    THEN compat_name_given(new_name, compat_name)
    ELSE compat_name_derived(new_name, order)

----------------------------------------------------------------------------
(* The names a call of _compat_name is given *)

MaxFrags == 3
MaxCompatFrags == 1

Frags == {worker, Worker, WORKER, slave, Slave, Some}

RECURSIVE NamesOf(_)
NamesOf(n) ==
    IF n = 0 THEN {<<>>}
    ELSE NamesOf(n - 1) \cup {s \o f : s \in NamesOf(n - 1), f \in Frags}

NewNames == NamesOf(MaxFrags) \ {<<>>}
CompatNames == (NamesOf(MaxCompatFrags) \ {<<>>}) \cup {None}

----------------------------------------------------------------------------
(* Deprecation events *)

\* on_deprecated_name_usage(message), as every caller in the module calls
\* it: filename is None and stacklevel is None, so stacklevel becomes 3 and
\* warnings.warn is called once with a DeprecatedWorkerNameWarning.
on_deprecated_name_usage(message) ==
    << [category |-> "DeprecatedWorkerNameWarning", message |-> message,
        stacklevel |-> 3] >>

\* "'{old}' <what> is deprecated, use '{new}' instead.".format(new=, old=)
DeprecatedMessage(what, old, new) == [what |-> what, old |-> old, new |-> new]

----------------------------------------------------------------------------
(* WorkerAPICompatMixin *)

\* How many nested forwarders (__getattr__, __setattr__, get, old_method,
\* old_func) run before the stack is used up; the next one entered raises
\* "maximum recursion depth exceeded" at its first call, before it fires an
\* event.
RecursionLimit == 3

\* The attribute names and values the operations are given.
slaveworker == slave \o worker
AttrNames == {worker, slave, slaveworker, Some}
Values == {1, 2}

\* The outcome of reading an attribute: the value or the exception, the
\* attribute an AttributeError names, and the events fired on the way.
ReadOutcome(err, attr, value, events) ==
    [err |-> err, attr |-> attr, value |-> value, events |-> events]

RECURSIVE getattr(_, _, _, _)
RECURSIVE __getattr__(_, _, _, _)

\* __getattr__(self, name): called when the normal lookup found nothing.
__getattr___warns_first(d, m, name, depth) ==
    LET fired == on_deprecated_name_usage(
                     DeprecatedMessage("attribute", name, name))
    IN  IF depth > RecursionLimit
        THEN ReadOutcome("RuntimeError", name, 0, <<>>)
        ELSE IF name \notin DOMAIN m
        THEN ReadOutcome("AttributeError", name, 0, fired)
        ELSE LET r == getattr(d, m, m[name], depth + 1)
             IN  [r EXCEPT !.events = fired \o @]
__getattr__(d, m, name, depth) ==
    IF depth > RecursionLimit
    THEN ReadOutcome("RuntimeError", name, 0, <<>>)
    ELSE IF name \notin DOMAIN m
    THEN ReadOutcome("AttributeError", name, 0, <<>>)
    ELSE LET new_name == m[name]
             fired == on_deprecated_name_usage(
                          DeprecatedMessage("attribute", name, new_name))
             r == getattr(d, m, new_name, depth + 1)
         IN  [r EXCEPT !.events = fired \o @]

\* getattr(self, name): the instance dictionary first, then __getattr__.
getattr(d, m, name, depth) ==
    IF name \in DOMAIN d
    THEN ReadOutcome("", name, d[name], <<>>)
    ELSE __getattr__(d, m, name, depth)

\* The outcome of writing an attribute: the exception if any, the instance
\* dictionary afterwards, and the events fired on the way.
WriteOutcome(err, d, events) == [err |-> err, dict |-> d, events |-> events]

\* __setattr__(self, name, value)
__setattr___shadow(d, m, name, value, depth) ==
    WriteOutcome("", DictSet(d, name, value), <<>>)
RECURSIVE __setattr__(_, _, _, _, _)
__setattr__(d, m, name, value, depth) ==
    IF depth > RecursionLimit
    THEN WriteOutcome("RuntimeError", d, <<>>)
    ELSE IF name \in DOMAIN m
    THEN LET new_name == m[name]
             fired == on_deprecated_name_usage(
                          DeprecatedMessage("attribute", name, new_name))
             r == __setattr__(d, m, new_name, value, depth + 1)
         IN  [r EXCEPT !.events = fired \o @]
    ELSE WriteOutcome("", DictSet(d, name, value), <<>>)

\* What the last operation on the instance was and what it gave.
LastOp(op, name, arg, err, attr, value, events) ==
    [op |-> op, name |-> name, arg |-> arg, err |-> err, attr |-> attr,
     value |-> value, events |-> events]

\* The second assertion of _registerOldWorkerAttr and the assignment.
RegisterInMapping(m, compat_name, attr_name) ==
    IF compat_name \in DOMAIN m THEN Raised("AssertionError")
    ELSE Returned(DictSet(m, compat_name, attr_name))

\* instance._registerOldWorkerAttr(attr_name, name)
_registerOldWorkerAttr(attr_name, name, order) ==
    LET c == _compat_name(attr_name, name, order)
    IN  IF c.err # ""
        THEN /\ last' = LastOp("register", attr_name, name, c.err, <<>>, 0, <<>>)
             /\ UNCHANGED <<attrs, hasMapping, mapping>>
        ELSE IF c.value \in DOMAIN attrs
        THEN /\ last' = LastOp("register", attr_name, name, "AssertionError",
                               c.value, 0, <<>>)
             /\ UNCHANGED <<attrs, hasMapping, mapping>>
        ELSE LET r == RegisterInMapping(mapping, c.value, attr_name)
             IN  /\ hasMapping' = TRUE
                 /\ mapping' = IF r.err = "" THEN r.value ELSE mapping
                 /\ last' = LastOp("register", attr_name, name, r.err,
                                   c.value, 0, <<>>)
                 /\ UNCHANGED attrs

Register ==
    \E attr_name \in AttrNames, name \in AttrNames \cup {None}, order \in Orders :
        /\ _registerOldWorkerAttr(attr_name, name, order)
        /\ UNCHANGED <<nameVars, classVars, scopeVars, sinkVars>>

\* instance.<name> = value
Write ==
    \E name \in AttrNames, value \in Values :
        LET r == __setattr__(attrs, mapping, name, value, 1)
        IN  /\ hasMapping' = TRUE
            /\ attrs' = r.dict
            /\ last' = LastOp("write", name, <<>>, r.err, <<>>, value, r.events)
            /\ UNCHANGED <<mapping, nameVars, classVars, scopeVars, sinkVars>>

\* instance.<name>
Read ==
    \E name \in AttrNames :
        LET r == getattr(attrs, mapping, name, 1)
        IN  /\ hasMapping' = (hasMapping \/ name \notin DOMAIN attrs)
            /\ last' = LastOp("read", name, <<>>, r.err, r.attr, r.value, r.events)
            /\ UNCHANGED <<attrs, mapping, nameVars, classVars, scopeVars, sinkVars>>

MixinNext == Register \/ Write \/ Read


----------------------------------------------------------------------------
(* deprecated_worker_class *)

\* A class written by the user: its __name__, whether it derives from
\* object, and whether it overrides __new__ ("custom") or inherits
\* object.__new__ ("object").  A custom __new__ is the usual one: it
\* allocates an instance of the class it is given and sees the arguments.
UserClass(name, newstyle, hook) ==
    [kind |-> "class", name |-> name, newstyle |-> newstyle, hook |-> hook]

UserClasses ==
    {UserClass(Worker, TRUE, "object"), UserClass(Worker, TRUE, "custom"),
     UserClass(Worker, FALSE, "object")}

\* How many legacy classes may be stacked on one user class.
MaxClassDepth == 2

RECURSIVE ClassDepth(_)
ClassDepth(cls) ==
    IF cls.kind = "compat_class" THEN 1 + ClassDepth(cls.cls) ELSE 0

\* issubclass(sub, cls): cls is sub or one of its bases, transitively.
RECURSIVE issubclass(_, _)
issubclass(sub, cls) ==
    \/ sub = cls
    \/ sub.kind = "compat_class" /\ issubclass(sub.cls, cls)

\* issubclass(cls, object)
IsNewStyle(cls) == cls.kind = "compat_class" \/ cls.newstyle

\* type(compat_name, (cls,), {"__new__": __new__, ...}): the legacy class,
\* whose __new__ closes over cls and compat_name.
deprecated_worker_class(cls, class_name, order) ==
    IF ~IsNewStyle(cls) THEN Raised("AssertionError")
    ELSE LET c == _compat_name(cls.name, class_name, order)
         IN  IF c.err # "" THEN Raised(c.err)
             ELSE Returned([kind |-> "compat_class", name |-> c.value,
                            cls |-> cls])

\* What a construction hook gives: the instance's type, the arguments the
\* user's hook saw (NoArguments for object.__new__, which is given none),
\* and the events fired on the way.
NoArguments == <<"no arguments">>
NewOutcome(type, hook, arguments, events) ==
    [type |-> type, hook |-> hook, arguments |-> arguments, events |-> events]

\* klass.__new__(instance_cls, *args, **kwargs), for a user class and for a
\* legacy class (the __new__ defined inside deprecated_worker_class).
RECURSIVE __new___args_always(_, _, _)
__new___args_always(klass, instance_cls, args) ==
    IF klass.kind = "compat_class"
    THEN LET fired == on_deprecated_name_usage(
                          DeprecatedMessage("class", klass.name, klass.cls.name))
             r == __new___args_always(klass.cls, instance_cls, args)
         IN  [r EXCEPT !.events = fired \o @]
    ELSE NewOutcome(instance_cls, klass.hook, args, <<>>)
RECURSIVE __new__(_, _, _)
__new__(klass, instance_cls, args) ==
    IF klass.kind = "compat_class"
    THEN LET cls == klass.cls
             fired == on_deprecated_name_usage(
                          DeprecatedMessage("class", klass.name, cls.name))
             r == IF cls.kind = "class" /\ cls.hook = "object"
                  THEN NewOutcome(instance_cls, "object", NoArguments, <<>>)
                  ELSE __new__(cls, instance_cls, args)
         IN  [r EXCEPT !.events = fired \o @]
    ELSE NewOutcome(instance_cls, klass.hook,
                    IF klass.hook = "object" THEN NoArguments ELSE args, <<>>)

\* The constructor arguments a legacy class is called with.
Arguments == {<<>>, <<1>>, <<1, 2>>}

\* The explicit class names deprecated_worker_class is given.
SlaveWorker == Slave \o Worker
ClassNames == {None, Slave, SlaveWorker}

\* compat_class = deprecated_worker_class(cls, class_name)
MakeLegacyClass ==
    \E cls \in UserClasses \cup legacyClasses, class_name \in ClassNames,
       order \in Orders :
        LET r == deprecated_worker_class(cls, class_name, order)
        IN  /\ ClassDepth(cls) < MaxClassDepth
            /\ legacyClasses' = IF r.err = "" THEN legacyClasses \cup {r.value}
                                ELSE legacyClasses
            /\ lastNew' = [op |-> "class", err |-> r.err, cls |-> cls,
                           args |-> <<>>,
                           new |-> NewOutcome(cls, "", NoArguments, <<>>)]
            /\ UNCHANGED <<nameVars, mixinVars, scopeVars, sinkVars>>

\* compat_class(*args)
Instantiate ==
    \E compat_class \in legacyClasses, args \in Arguments :
        /\ lastNew' = [op |-> "instantiate", err |-> "", cls |-> compat_class,
                       args |-> args,
                       new |-> __new__(compat_class, compat_class, args)]
        /\ UNCHANGED <<legacyClasses, nameVars, mixinVars, scopeVars, sinkVars>>

ClassNext == MakeLegacyClass \/ Instantiate

----------------------------------------------------------------------------
(* define_old_worker_* and deprecatedWorkerModuleAttribute *)

\* A function or method written by the user, with its __name__.
Function(name) == [kind |-> "function", name |-> name]

\* What the user has defined in a namespace before any alias is defined
\* in it.
InitialScope == DictSet(DictSet(EmptyDict, worker, Function(worker)),
                        Worker, UserClass(Worker, TRUE, "object"))

\* A string bound in a namespace.
Str(value) == [kind |-> "str", value |-> value]

\* The keys the interpreter binds in a namespace: __name__ in a module,
\* __module__ in a class body.
__name__ == <<"_", "_", "n", "a", "m", "e", "_", "_">>
__module__ == <<"_", "_", "m", "o", "d", "u", "l", "e", "_", "_">>

\* sys.modules: the names of the loaded modules, each with the identity
\* of its __dict__.
LoadedModule == <<"m", "o", "d">>
NoSuchModule == <<"n", "o">>
sys_modules == DictSet(EmptyDict, LoadedModule, "module __dict__")

\* A dictionary object passed as scope: its identity and its contents.
Namespace(id, dict) == [id |-> id, dict |-> dict]

\* The locals() of the loaded module.
ModuleNamespace ==
    Namespace("module __dict__", DictSet(InitialScope, __name__, Str(LoadedModule)))

\* The dictionaries a definition can be given as scope: the locals() of
\* the loaded module, a copy of them, a dictionary whose __name__ names no
\* loaded module, and the locals() of a class body.
Namespaces ==
    { ModuleNamespace,
      Namespace("copy", DictSet(InitialScope, __name__, Str(LoadedModule))),
      Namespace("dict", DictSet(InitialScope, __name__, Str(NoSuchModule))),
      Namespace("class body", DictSet(InitialScope, __module__, Str(LoadedModule))) }

\* The new_name and compat_name arguments the definitions are given.
PropertyNames == {worker, slaveworker}
CompatArgs == {None, slave, slaveworker}

\* The objects the definitions are given: the user's functions, the
\* user's classes, and both.
Functions == {InitialScope[k] : k \in {n \in DOMAIN InitialScope :
                                         InitialScope[n].kind = "function"}}
Classes == {InitialScope[k] : k \in {n \in DOMAIN InitialScope :
                                       InitialScope[n].kind = "class"}}
Attributes == Functions \cup Classes

\* What a definition gives: the exception if any, the legacy name it
\* computed (<<>> when _compat_name failed) and the namespace afterwards.
Defined(err, compat_name, sc) == [err |-> err, compat_name |-> compat_name, scope |-> sc]

\* define_old_worker_class(scope, cls, compat_name)
define_old_worker_class(sc, cls, compat_name, order) ==
    LET compat_class == deprecated_worker_class(cls, compat_name, order)
    IN  IF compat_class.err # "" THEN Defined(compat_class.err, <<>>, sc)
        ELSE Defined("", compat_class.value.name,
                     DictSet(sc, compat_class.value.name, compat_class.value))

\* define_old_worker_property(scope, new_name, compat_name)
define_old_worker_property(sc, new_name, compat_name, order) ==
    LET c == _compat_name(new_name, compat_name, order)
    IN  IF c.err # "" THEN Defined(c.err, <<>>, sc)
        ELSE IF c.value \in DOMAIN sc THEN Defined("AssertionError", c.value, sc)
        ELSE Defined("", c.value,
                     DictSet(sc, c.value, [kind |-> "property",
                                           new_name |-> new_name,
                                           compat_name |-> c.value]))

\* define_old_worker_method(scope, method, compat_name); update_wrapper
\* gives old_method the __name__ of method.
define_old_worker_method(sc, method, compat_name, order) ==
    LET method_name == method.name
        c == _compat_name(method_name, compat_name, order)
    IN  IF c.err # "" THEN Defined(c.err, <<>>, sc)
        ELSE IF c.value \in DOMAIN sc THEN Defined("AssertionError", c.value, sc)
        ELSE Defined("", c.value,
                     DictSet(sc, c.value, [kind |-> "old_method",
                                           name |-> method_name,
                                           method_name |-> method_name,
                                           compat_name |-> c.value]))

\* define_old_worker_func(scope, func, compat_name); update_wrapper gives
\* old_func the __name__ of func.
define_old_worker_func(sc, func, compat_name, order) ==
    LET c == _compat_name(func.name, compat_name, order)
    IN  IF c.err # "" THEN Defined(c.err, <<>>, sc)
        ELSE Defined("", c.value,
                     DictSet(sc, c.value, [kind |-> "old_func",
                                           name |-> func.name,
                                           func |-> func,
                                           compat_name |-> c.value]))

\* The message deprecatedWorkerModuleAttribute hands to Twisted:
\* _WORKER_WARNING_MARK + "Use {0} instead.".format(attribute_name)
UseInstead(attribute_name) == [mark |-> TRUE, use |-> attribute_name]

\* deprecatedWorkerModuleAttribute(scope, attribute, compat_name): scope,
\* the dictionary of identity id, must be the __dict__ of the loaded module
\* its __name__ names. attribute_name is the key that
\* scope.values().index(attribute) finds: the first, in the dictionary's
\* order, of the keys bound to the attribute. Twisted's
\* deprecatedModuleAttribute records the message under the name.
deprecatedWorkerModuleAttribute(sc, id, dep, attribute_name, compat_name, order) ==
    LET failed(err) ==
            [err |-> err, compat_name |-> <<>>, scope |-> sc, deprecated |-> dep]
    IN  IF __name__ \notin DOMAIN sc THEN failed("KeyError")
        ELSE LET module_name == sc[__name__].value
             IN  IF module_name \notin DOMAIN sys_modules
                 THEN failed("AssertionError")
                 ELSE IF sys_modules[module_name] # id
                 THEN failed("AssertionError")
                 ELSE LET c == _compat_name(attribute_name, compat_name, order)
                      IN  IF c.err # "" THEN failed(c.err)
                          ELSE [err |-> "", compat_name |-> c.value,
                                scope |-> DictSet(sc, c.value, sc[attribute_name]),
                                deprecated |-> DictSet(dep, c.value,
                                                       UseInstead(attribute_name))]

\* What using a name gives: the exception or the object found or returned,
\* the events fired, and how many legacy forwarders (get, old_method,
\* old_func) were entered on the way.
UseOutcome(err, result, events, forwarders) ==
    [err |-> err, result |-> result, events |-> events, forwarders |-> forwarders]

\* A forwarder that was entered, fired its events and went on to r.
Entered(fired, r) ==
    [r EXCEPT !.events = fired \o @, !.forwarders = @ + 1]

\* A forwarder that was entered with the stack used up: its call of
\* on_deprecated_name_usage, or the call of warnings.warn inside it, raises
\* "maximum recursion depth exceeded" before any event is fired.
StackExhausted == UseOutcome("RuntimeError", <<>>, <<>>, 1)

\* getattr(self, name) on an instance of the class whose body is sc; a
\* property runs its get(self). depth counts the forwarders on the stack.
RECURSIVE Lookup(_, _, _)
Lookup(sc, name, depth) ==
    IF name \notin DOMAIN sc THEN UseOutcome("AttributeError", name, <<>>, 0)
    ELSE IF sc[name].kind = "property"
    THEN IF depth > RecursionLimit THEN StackExhausted
         ELSE Entered(on_deprecated_name_usage(
                          DeprecatedMessage("attribute", sc[name].compat_name,
                                            sc[name].new_name)),
                      Lookup(sc, sc[name].new_name, depth + 1))
    ELSE UseOutcome("", sc[name], <<>>, 0)

\* f(*args, **kwargs) for a user function, an old_func or an old_method.
RECURSIVE Call(_, _, _)
Call(sc, f, depth) ==
    IF f.kind = "old_func"
    THEN IF depth > RecursionLimit THEN StackExhausted
         ELSE Entered(on_deprecated_name_usage(
                          DeprecatedMessage("function", f.compat_name, f.func.name)),
                      Call(sc, f.func, depth + 1))
    ELSE IF f.kind = "old_method"
    THEN IF depth > RecursionLimit THEN StackExhausted
         ELSE LET found == Lookup(sc, f.method_name, depth + 1)
                  r == IF found.err # "" THEN found
                       ELSE LET called == Call(sc, found.result, depth + 1)
                            IN  [called EXCEPT
                                    !.events = found.events \o @,
                                    !.forwarders = found.forwarders + @]
              IN  Entered(on_deprecated_name_usage(
                              DeprecatedMessage("method", f.compat_name,
                                                f.method_name)),
                          r)
    ELSE UseOutcome("", [ran |-> f.name], <<>>, 0)

\* What the last operation on the namespace was and what it gave.
NothingUsed == UseOutcome("", <<>>, <<>>, 0)
LastDef(op, r) ==
    [op |-> op, name |-> <<>>, err |-> r.err, compat_name |-> r.compat_name,
     use |-> NothingUsed]
LastUse(op, name, r) ==
    [op |-> op, name |-> name, err |-> r.err, compat_name |-> <<>>, use |-> r]

DefineClass ==
    \E cls \in Classes, compat_name \in CompatArgs, order \in Orders :
        LET r == define_old_worker_class(scope, cls, compat_name, order)
        IN  /\ scope' = r.scope
            /\ lastUse' = LastDef("class", r)
            /\ UNCHANGED <<scopeId, deprecatedAttributes>>
            /\ UNCHANGED <<nameVars, mixinVars, classVars, sinkVars>>

DefineProperty ==
    \E new_name \in PropertyNames, compat_name \in CompatArgs, order \in Orders :
        LET r == define_old_worker_property(scope, new_name, compat_name, order)
        IN  /\ scope' = r.scope
            /\ lastUse' = LastDef("property", r)
            /\ UNCHANGED <<scopeId, deprecatedAttributes>>
            /\ UNCHANGED <<nameVars, mixinVars, classVars, sinkVars>>

DefineMethod ==
    \E method \in Functions, compat_name \in CompatArgs, order \in Orders :
        LET r == define_old_worker_method(scope, method, compat_name, order)
        IN  /\ scope' = r.scope
            /\ lastUse' = LastDef("method", r)
            /\ UNCHANGED <<scopeId, deprecatedAttributes>>
            /\ UNCHANGED <<nameVars, mixinVars, classVars, sinkVars>>

DefineFunc ==
    \E func \in Functions, compat_name \in CompatArgs, order \in Orders :
        LET r == define_old_worker_func(scope, func, compat_name, order)
        IN  /\ scope' = r.scope
            /\ lastUse' = LastDef("func", r)
            /\ UNCHANGED <<scopeId, deprecatedAttributes>>
            /\ UNCHANGED <<nameVars, mixinVars, classVars, sinkVars>>

DefineModuleAttribute ==
    \E attribute \in Attributes, compat_name \in CompatArgs, order \in Orders :
        \E attribute_name \in {k \in DOMAIN scope : scope[k] = attribute} :
            LET r == deprecatedWorkerModuleAttribute(
                         scope, scopeId, deprecatedAttributes, attribute_name,
                         compat_name, order)
            IN  /\ scope' = r.scope
                /\ UNCHANGED scopeId
                /\ deprecatedAttributes' = r.deprecated
                /\ lastUse' = LastDef("attribute", r)
                /\ UNCHANGED <<nameVars, mixinVars, classVars, sinkVars>>

\* instance.<name>(...) or <name>(...) for a legacy method or function
CallLegacy ==
    \E name \in DOMAIN scope :
        /\ scope[name].kind \in {"old_func", "old_method"}
        /\ lastUse' = LastUse("call", name, Call(scope, scope[name], 1))
        /\ UNCHANGED <<scope, scopeId, deprecatedAttributes>>
        /\ UNCHANGED <<nameVars, mixinVars, classVars, sinkVars>>

\* instance.<name> for a legacy property
ReadLegacy ==
    \E name \in DOMAIN scope :
        /\ scope[name].kind = "property"
        /\ lastUse' = LastUse("read", name, Lookup(scope, name, 1))
        /\ UNCHANGED <<scope, scopeId, deprecatedAttributes>>
        /\ UNCHANGED <<nameVars, mixinVars, classVars, sinkVars>>

ScopeNext ==
    \/ DefineClass
    \/ DefineProperty
    \/ DefineMethod
    \/ DefineFunc
    \/ DefineModuleAttribute
    \/ CallLegacy
    \/ ReadLegacy

----------------------------------------------------------------------------
(* setupWorkerTransition *)

_WORKER_WARNING_MARK == <<"[", "W", "O", "R", "K", "E", "R", "]">>

\* The messages Twisted's deprecation machinery emits: one that
\* deprecatedWorkerModuleAttribute marked, and one of some other package.
UseWorker == <<"U", "s", "e", " ">> \o worker
Messages == {_WORKER_WARNING_MARK \o UseWorker, UseWorker}

\* How many times setupWorkerTransition is called, and how many events are
\* emitted.
MaxSwaps == 2
MaxEmits == 3

\* Twisted's initial warning method, warnings.warn.
DefaultWarnMethod == [kind |-> "warnings.warn"]

\* Which warning method this is: 0 for the initial one, k for the
\* custom_warn_method made by the k-th call of setupWorkerTransition.
RECURSIVE MethodId(_)
MethodId(method) ==
    IF method.kind = "custom_warn_method"
    THEN 1 + MethodId(method.default_warn_method)
    ELSE 0

\* What a call of a warning method does: the methods the event was
\* delivered to, in order, and the warning finally issued.
Delivered(to, category, message, stacklevel) ==
    [to |-> to,
     issued |-> [category |-> category, message |-> message,
                 stacklevel |-> stacklevel]]

\* The body of the custom_warn_method closure made by
\* setupWorkerTransition, whose default_warn_method is the method that was
\* installed before it (stacklevel is the integer Twisted passes, never
\* None, so it is incremented).
RECURSIVE warn(_, _, _, _)
custom_warn_method_chained(method, message, category, stacklevel) ==
    LET r == warn(method.default_warn_method, message, category, stacklevel)
    IN  [r EXCEPT !.to = <<MethodId(method)>> \o @]
custom_warn_method(method, message, category, stacklevel) ==
    IF Contains(message, _WORKER_WARNING_MARK)
    THEN Delivered(<<MethodId(method)>>, "DeprecatedWorkerNameWarning",
                   Replace(message, _WORKER_WARNING_MARK, <<>>),
                   stacklevel + 1)
    ELSE LET r == warn(method.default_warn_method, message, category,
                       stacklevel)
         IN  [r EXCEPT !.to = <<MethodId(method)>> \o @]

\* method(message, category, stacklevel): a call of a warning method, which
\* is a custom_warn_method closure or the initial warnings.warn.
warn(method, message, category, stacklevel) ==
    IF method.kind = "custom_warn_method"
    THEN custom_warn_method(method, message, category, stacklevel)
    ELSE Delivered(<<0>>, category, message, stacklevel)

\* setupWorkerTransition()
setupWorkerTransition ==
    /\ MethodId(warnMethod) < MaxSwaps
    /\ warnMethod' = [kind |-> "custom_warn_method",
                      default_warn_method |-> warnMethod]
    /\ UNCHANGED sinkLog
    /\ UNCHANGED <<nameVars, mixinVars, classVars, scopeVars>>

\* Twisted emits a deprecation: warn(message, DeprecationWarning, stacklevel=3)
Emit ==
    \E message \in Messages :
        /\ Len(sinkLog) < MaxEmits
        /\ sinkLog' = Append(sinkLog,
               [message |-> message, installed |-> MethodId(warnMethod),
                got |-> warn(warnMethod, message, "DeprecationWarning", 3)])
        /\ UNCHANGED warnMethod
        /\ UNCHANGED <<nameVars, mixinVars, classVars, scopeVars>>

SinkNext == setupWorkerTransition \/ Emit

----------------------------------------------------------------------------
(* Specifications *)

\* The state before anything has been done.
NoLastOp == LastOp("new", <<>>, <<>>, "", <<>>, 0, <<>>)
NoLastNew ==
    [op |-> "none", err |-> "", cls |-> <<>>, args |-> <<>>,
     new |-> NewOutcome(<<>>, "", NoArguments, <<>>)]
NoLastUse ==
    [op |-> "none", name |-> <<>>, err |-> "", compat_name |-> <<>>,
     use |-> NothingUsed]

Start ==
    /\ attrs = EmptyDict /\ hasMapping = FALSE /\ mapping = EmptyDict
    /\ last = NoLastOp
    /\ legacyClasses = {} /\ lastNew = NoLastNew
    /\ scope = ModuleNamespace.dict /\ scopeId = ModuleNamespace.id
    /\ deprecatedAttributes = EmptyDict
    /\ lastUse = NoLastUse
    /\ warnMethod = DefaultWarnMethod /\ sinkLog = <<>>
    /\ nmResult = NotCalled
    /\ nmNew = <<>> /\ nmCompat = None /\ nmOrder = <<>>

NameInit ==
    /\ attrs = EmptyDict /\ hasMapping = FALSE /\ mapping = EmptyDict
    /\ last = NoLastOp
    /\ legacyClasses = {} /\ lastNew = NoLastNew
    /\ scope = ModuleNamespace.dict /\ scopeId = ModuleNamespace.id
    /\ deprecatedAttributes = EmptyDict
    /\ lastUse = NoLastUse
    /\ warnMethod = DefaultWarnMethod /\ sinkLog = <<>>
    /\ nmResult = NotCalled
    /\ nmNew \in NewNames /\ nmCompat \in CompatNames /\ nmOrder \in Orders

\* A namespace before any alias is defined in it.
ScopeInit ==
    /\ attrs = EmptyDict /\ hasMapping = FALSE /\ mapping = EmptyDict
    /\ last = NoLastOp
    /\ legacyClasses = {} /\ lastNew = NoLastNew
    /\ \E ns \in Namespaces : scope = ns.dict /\ scopeId = ns.id
    /\ deprecatedAttributes = EmptyDict
    /\ lastUse = NoLastUse
    /\ warnMethod = DefaultWarnMethod /\ sinkLog = <<>>
    /\ nmResult = NotCalled
    /\ nmNew = <<>> /\ nmCompat = None /\ nmOrder = <<>>

CallCompatName ==
    /\ nmResult = NotCalled
    /\ nmResult' = _compat_name(nmNew, nmCompat, nmOrder)
    /\ UNCHANGED <<nmNew, nmCompat, nmOrder>>
    /\ UNCHANGED <<mixinVars, classVars, scopeVars, sinkVars>>

NameNext == CallCompatName

\* One call of _compat_name on every name and override of the pools.
SpecName == NameInit /\ [][NameNext]_vars

\* Registrations, reads and writes on one WorkerAPICompatMixin instance.
SpecMixin == Start /\ [][MixinNext]_vars

\* Legacy classes made and instantiated.
SpecClass == Start /\ [][ClassNext]_vars

\* Aliases defined in one namespace, of a module or of a class body, and
\* used.
SpecScope == ScopeInit /\ [][ScopeNext]_vars

\* Warning methods installed and events emitted through them.
SpecSink == Start /\ [][SinkNext]_vars

----------------------------------------------------------------------------
(* Properties of _compat_name (SpecName) *)

\* How many times t occurs in s.
Occurrences(s, t) ==
    Cardinality({i \in 0..Len(s) : /\ i + Len(t) <= Len(s)
                                   /\ SubSeq(s, i + 1, i + Len(t)) = t})

Called == nmResult # NotCalled
Accepted == Called /\ nmResult.err = ""

\* The name contains the new term, "worker" or "Worker", exactly once.
NewTermOnce(s) == Occurrences(s, worker) + Occurrences(s, Worker) = 1

\* legacy is canonical with its one new term replaced by the old term of the
\* same capitalisation.
IsTermReplaced(canonical, legacy) ==
    \E i \in 0..Len(canonical) :
        \E t \in {<<worker, slave>>, <<Worker, Slave>>} :
            /\ i + Len(t[1]) <= Len(canonical)
            /\ SubSeq(canonical, i + 1, i + Len(t[1])) = t[1]
            /\ legacy = SubSeq(canonical, 1, i) \o t[2]
                        \o SubSeq(canonical, i + Len(t[1]) + 1, Len(canonical))

DerivedAsClaimed ==
    /\ nmResult.err = ""
    /\ IsTermReplaced(nmNew, nmResult.value)
    /\ Contains(nmResult.value, slave) \/ Contains(nmResult.value, Slave)
    /\ ~Contains(nmResult.value, worker)
    /\ ~Contains(nmResult.value, Worker)

\* C3: every accepted pair, derived or given, satisfies the four containment
\* invariants: the canonical name contains "worker" and not "slave", the
\* legacy name contains "slave" and not "worker".
C3_AcceptedPairSatisfiesContainment ==
    Accepted =>
        /\ Contains(Lower(nmNew), worker)
        /\ ~Contains(Lower(nmNew), slave)
        /\ Contains(Lower(nmResult.value), slave)
        /\ ~Contains(Lower(nmResult.value), worker)

\* C4, as stated: a name with the new term exactly once is always derived.
C4_DerivedWheneverNewTermOnce ==
    (Called /\ nmCompat = None /\ NewTermOnce(nmNew)) => DerivedAsClaimed

\* C4, amended: a name with the new term exactly once, with no other
\* occurrence of it in any letter case and without the old term in any
\* letter case, is derived by replacing that term, and the result contains
\* the old term and no new term.
C4_DerivedWhenOnlyNewTermOnce ==
    (/\ Called
     /\ nmCompat = None
     /\ NewTermOnce(nmNew)
     /\ Occurrences(Lower(nmNew), worker) = 1
     /\ ~Contains(Lower(nmNew), slave)) => DerivedAsClaimed

C4_Witness ==
    /\ Accepted
    /\ nmCompat = None
    /\ nmNew = Some \o Worker \o Some
    /\ nmResult.value = Some \o Slave \o Some

----------------------------------------------------------------------------
(* Properties of WorkerAPICompatMixin (SpecMixin) *)

\* C1: a write to a registered legacy name L of canonical C leaves C holding
\* the value and fires exactly one event, and a read of L afterwards returns
\* the value and fires exactly one event.
C1_LegacyWriteThenReadFireOneEventEach ==
    (last.op = "write" /\ last.name \in DOMAIN mapping) =>
        LET C == mapping[last.name]
            read == getattr(attrs, mapping, last.name, 1)
        IN  /\ last.err = ""
            /\ Len(last.events) = 1
            /\ C \in DOMAIN attrs
            /\ attrs[C] = last.value
            /\ read.err = ""
            /\ read.value = last.value
            /\ Len(read.events) = 1

\* C6: a read of a name that is neither registered nor set raises
\* AttributeError naming that attribute and fires no event.
C6_UndefinedAttributeRaisesSilently ==
    (/\ last.op = "read"
     /\ last.name \notin DOMAIN mapping
     /\ last.name \notin DOMAIN attrs) =>
        /\ last.err = "AttributeError"
        /\ last.attr = last.name
        /\ last.events = <<>>

\* The read happened before any registration or write, and created the map.
C6_Witness ==
    /\ last.op = "read"
    /\ last.err = "AttributeError"
    /\ last.name = Some
    /\ mapping = EmptyDict
    /\ attrs = EmptyDict
    /\ hasMapping

\* C9: no registered legacy name is ever a key of the instance dictionary,
\* and a registration whose legacy name is an instance field or is already
\* registered fails and leaves the alias map as it was.
C9_NoShadowField ==
    [][/\ \A L \in DOMAIN mapping' : L \notin DOMAIN attrs'
       /\ (/\ last'.op = "register"
           /\ last'.attr \in (DOMAIN attrs \cup DOMAIN mapping))
          => (last'.err = "AssertionError" /\ mapping' = mapping)
       /\ (last'.op = "register" /\ last'.err # "") => mapping' = mapping
      ]_vars

\* A legacy name was written, and it is not a field.
C9_Witness ==
    /\ last.op = "write"
    /\ last.err = ""
    /\ last.name \in DOMAIN mapping
    /\ Len(last.events) = 1
    /\ last.name \notin DOMAIN attrs
    /\ mapping[last.name] \in DOMAIN attrs

\* Following the alias map from name for at most n steps leaves the map.
RECURSIVE LeavesMap(_, _)
LeavesMap(name, n) ==
    \/ name \notin DOMAIN mapping
    \/ n > 0 /\ LeavesMap(mapping[name], n - 1)

\* C10: the redirection from every registered legacy name reaches a name
\* that is not a legacy name, and no read or write runs out of stack.
C10_RedirectionTerminates ==
    /\ \A L \in DOMAIN mapping : LeavesMap(L, Cardinality(DOMAIN mapping))
    /\ last.err # "RuntimeError"

----------------------------------------------------------------------------
(* Properties of the alias definitions (SpecScope) *)

LegacyKinds == {"property", "old_method", "old_func", "compat_class"}

\* The names an alias was installed under.
LegacyNames(sc, dep) ==
    {k \in DOMAIN sc : sc[k].kind \in LegacyKinds} \cup DOMAIN dep

\* C2: a definition, of any shape, whose legacy name is already installed
\* in the namespace fails with AssertionError and replaces nothing.
C2_DuplicateLegacyNameFails ==
    [][(/\ lastUse'.op \in {"class", "property", "method", "func", "attribute"}
        /\ lastUse'.compat_name \in LegacyNames(scope, deprecatedAttributes))
       => (lastUse'.err = "AssertionError" /\ scope' = scope)
      ]_vars

\* The canonical name a forwarder delegates to.
CanonicalOf(f) ==
    IF f.kind = "property" THEN f.new_name
    ELSE IF f.kind = "old_method" THEN f.method_name
    ELSE f.func.name

\* C5: every use of a legacy method, property or function fires exactly
\* one event for each forwarder entered, never none, each of category
\* DeprecatedWorkerNameWarning, the first naming the legacy name used; when
\* the canonical target is not itself legacy that is exactly one event, and
\* the use gives what the canonical target gives.
C5_OneEventPerLegacyUse ==
    (lastUse.op \in {"call", "read"}) =>
        LET u == lastUse.use
            f == scope[lastUse.name]
            direct == \/ f.kind = "old_func"
                      \/ /\ CanonicalOf(f) \in DOMAIN scope
                         /\ scope[CanonicalOf(f)].kind \notin LegacyKinds
        IN  /\ Len(u.events) >= 1
            /\ Len(u.events) = u.forwarders
            /\ \A i \in DOMAIN u.events :
                   u.events[i].category = "DeprecatedWorkerNameWarning"
            /\ u.events[1].message.old = lastUse.name
            /\ u.events[1].message.new = CanonicalOf(f)
            /\ direct =>
                   /\ Len(u.events) = 1
                   /\ u.err = ""
                   /\ u.result = IF lastUse.op = "read"
                                 THEN scope[CanonicalOf(f)]
                                 ELSE [ran |-> CanonicalOf(f)]

----------------------------------------------------------------------------
(* Properties of the warning method (SpecSink) *)

\* k, k - 1, ..., 0
RECURSIVE DownFrom(_)
DownFrom(k) == IF k = 0 THEN <<0>> ELSE <<k>> \o DownFrom(k - 1)

\* C7, as stated: every event goes to the warning method installed when it
\* was emitted and to no other.
C7_EveryEventToOneMethodOnly ==
    \A i \in DOMAIN sinkLog : sinkLog[i].got.to = <<sinkLog[i].installed>>

\* C7, amended: an event emitted before any swap goes to the original
\* method alone; after a swap a marked event goes to the newest method
\* alone, which issues it as a DeprecatedWorkerNameWarning without the
\* mark, and an unmarked event is passed by the newest method down to every
\* method installed before it, unchanged.
C7_MarkedToNewestUnmarkedDelegated ==
    \A i \in DOMAIN sinkLog :
        LET e == sinkLog[i]
        IN  IF e.installed > 0 /\ Contains(e.message, _WORKER_WARNING_MARK)
            THEN /\ e.got.to = <<e.installed>>
                 /\ e.got.issued.category = "DeprecatedWorkerNameWarning"
                 /\ _WORKER_WARNING_MARK \o e.got.issued.message = e.message
                 /\ e.got.issued.stacklevel = 4
            ELSE /\ e.got.to = DownFrom(e.installed)
                 /\ e.got.issued.category = "DeprecationWarning"
                 /\ e.got.issued.message = e.message
                 /\ e.got.issued.stacklevel = 3

\* An event before the first swap, then a marked and an unmarked event
\* after the second.
C7_Witness ==
    /\ Len(sinkLog) = 3
    /\ sinkLog[1].installed = 0
    /\ sinkLog[1].got.to = <<0>>
    /\ sinkLog[2].installed = 2
    /\ Contains(sinkLog[2].message, _WORKER_WARNING_MARK)
    /\ sinkLog[2].got.to = <<2>>
    /\ sinkLog[3].installed = 2
    /\ sinkLog[3].got.to = <<2, 1, 0>>

----------------------------------------------------------------------------
(* Properties of deprecated_worker_class (SpecClass) *)

\* The user class at the bottom of a legacy class.
RECURSIVE UserClassOf(_)
UserClassOf(cls) ==
    IF cls.kind = "compat_class" THEN UserClassOf(cls.cls) ELSE cls

ArgumentsAsClaimed ==
    LET hook == UserClassOf(lastNew.cls).hook
    IN  /\ lastNew.new.hook = hook
        /\ hook = "object" => lastNew.new.arguments = NoArguments
        /\ hook = "custom" => lastNew.new.arguments = lastNew.args

\* C8, as stated: instantiating a legacy class fires exactly one event and
\* gives an object of the canonical class itself, not of another type.
C8_InstanceIsOfCanonicalType ==
    (lastNew.op = "instantiate") =>
        /\ Len(lastNew.new.events) = 1
        /\ issubclass(lastNew.new.type, lastNew.cls.cls)
        /\ lastNew.new.type = lastNew.cls.cls
        /\ ArgumentsAsClaimed

\* C8, amended: instantiating a legacy class fires one event per legacy
\* class stacked on the user class (exactly one when the canonical class is
\* not itself a legacy class), the first naming the legacy class, and gives
\* an object whose type is the legacy class, a subclass of the canonical
\* class and distinct from it; the user's hook sees no arguments when it is
\* object.__new__ and all of them when it is overridden.
C8_InstanceIsOfLegacySubclass ==
    (lastNew.op = "instantiate") =>
        LET K == lastNew.cls
            n == lastNew.new
        IN  /\ Len(n.events) = ClassDepth(K)
            /\ K.cls.kind = "class" => Len(n.events) = 1
            /\ \A i \in DOMAIN n.events :
                   n.events[i].category = "DeprecatedWorkerNameWarning"
            /\ n.events[1].message = DeprecatedMessage("class", K.name, K.cls.name)
            /\ n.type = K
            /\ n.type # K.cls
            /\ issubclass(n.type, K.cls)
            /\ issubclass(n.type, UserClassOf(K))
            /\ ArgumentsAsClaimed

C8_Witness ==
    /\ lastNew.op = "instantiate"
    /\ lastNew.cls.cls = UserClass(Worker, TRUE, "custom")
    /\ lastNew.args = <<1, 2>>
    /\ lastNew.new.arguments = <<1, 2>>
    /\ Len(lastNew.new.events) = 1

====
